---- MODULE Spec2Model ----
(***************************************************************************)
(* A model of fst::result<T, E> (include/fst/result.hpp): the tag m_state, *)
(* the union m_self that holds the payload, the constructors, the copy and *)
(* move constructors, the destructor, the accessors, the combinators and   *)
(* the cross-type conversion operators.                                    *)
(*                                                                         *)
(* An instance is a record [m_state, m_self].  m_self models the union:    *)
(*   live    - the member whose lifetime was begun (by a constructor of    *)
(*             the union, or by assigning to a member of a trivial type)   *)
(*             and not ended: "T", "E" or "none";                          *)
(*   written - the member the bytes of the storage were last written as;   *)
(*   val     - the content of the storage.                                 *)
(* Reading a member the storage was not written as yields an indeterminate *)
(* value; assigning to a member of a non-trivial type whose lifetime was   *)
(* not begun is undefined behaviour, modelled as a choice between the      *)
(* outcomes a build can produce.                                           *)
(***************************************************************************)
EXTENDS Integers, Sequences, FiniteSets, TLC

VARIABLES
  inst,     \* the instantiation: inst.T / inst.E say whether T / E is a trivial type
  objs,     \* slot -> [status, m_state, m_self]
  last,     \* the last operation: what it was applied to and what it gave
  cout,     \* std::cout: the number of lines written to it so far
  crashed   \* the process was terminated by undefined behaviour

vars == <<inst, objs, last, cout, crashed>>

\* ------------------------------------------------------------------ bounds
MaxObjs == 2     \* instances alive at once
MaxLines == 1    \* lines written to std::cout in one run
MaxVal == 1      \* success payloads are 0..MaxVal
MaxErr == 1      \* error payloads are 0..MaxErr

\* ------------------------------------------------------- result_state enum
empty == 0
success == 1
error == 2

result_state == {empty, success, error}

to_string(state) ==
  CASE state = empty -> "empty"
    [] state = success -> "success"
    [] state = error -> "error"
    [] OTHER -> "unknown"

\* ---------------------------------------------------------------- payloads
Slots == 1..MaxObjs
TVals == 0..MaxVal
EVals == 0..MaxErr
Garbage == 0 - 1          \* an indeterminate / corrupt content of the storage
Vals(member) == IF member = "T" THEN TVals ELSE EVals
Indeterminate(member) == Vals(member) \cup {Garbage}

\* T{} : the value-initialised success payload
T_init == 0

\* ------------------------------------------------------------ union members
\* members() {}
members_empty == [live |-> "none", written |-> "none", val |-> Garbage]
\* mutant of members_success: m_value is value-initialised, val is dropped
members_success_drop(val) == [live |-> "T", written |-> "T", val |-> T_init]

\* members(success_tag, T val) : m_value(val)
members_success(val) == [live |-> "T", written |-> "T", val |-> val]
\* members(error_tag, E err) : m_error(err)
members_error(err) == [live |-> "E", written |-> "E", val |-> err]

\* m_self.m_value / m_self.m_error as an rvalue: the values the read can give
Read(m_self, member) ==
  IF m_self.written = member THEN {m_self.val} ELSE Indeterminate(member)

\* m_self.<member> = v in a constructor body.  Outcomes [crash, m_self].
Assign(m_self, member, v, trivial) ==
  IF m_self.live = member
    THEN {[crash |-> FALSE, m_self |-> [m_self EXCEPT !.written = member, !.val = v]]}
    ELSE IF trivial
      THEN {[crash |-> FALSE, m_self |-> [live |-> member, written |-> member, val |-> v]]}
      ELSE {[crash |-> FALSE, m_self |-> [live |-> m_self.live, written |-> member, val |-> v]],
            [crash |-> FALSE, m_self |-> [live |-> m_self.live, written |-> member, val |-> Garbage]],
            [crash |-> TRUE, m_self |-> m_self]}

\* ------------------------------------------------------------- constructors
\* result()
result_default == [m_state |-> empty, m_self |-> members_success(T_init)]
\* result(const T& value)
result_value(value) == [m_state |-> success, m_self |-> members_success(value)]
\* result(const E& error)
result_error(err) == [m_state |-> error, m_self |-> members_error(err)]
\* result(success_tag, const T& value)
result_success_tag(value) == [m_state |-> success, m_self |-> members_success(value)]
\* result(error_tag, const E& error)
result_error_tag(err) == [m_state |-> error, m_self |-> members_error(err)]

\* result(result<T, E>& res).  Outcomes [crash, obj].
result_copy(res, tr) ==
  LET fresh == [m_state |-> res.m_state, m_self |-> members_empty]
  IN CASE res.m_state = success ->
            {[crash |-> a.crash, obj |-> [fresh EXCEPT !.m_self = a.m_self]] :
               a \in UNION {Assign(members_empty, "T", v, tr.T) : v \in Read(res.m_self, "T")}}
       [] res.m_state = error ->
            {[crash |-> a.crash, obj |-> [fresh EXCEPT !.m_self = a.m_self]] :
               a \in UNION {Assign(members_empty, "E", e, tr.E) : e \in Read(res.m_self, "E")}}
       [] OTHER -> {[crash |-> FALSE, obj |-> fresh]}

\* what std::move(member) leaves in the source: a trivial payload is copied, a
\* non-trivial one is left valid with an unspecified content
MovedFrom(m_self, member, trivial) ==
  IF trivial THEN {m_self} ELSE {[m_self EXCEPT !.val = Garbage]}

\* result(result<T, E>&& res).  Outcomes [crash, obj, res]: the new instance
\* and the source after the move.
result_move(res, tr) ==
  LET fresh == [m_state |-> res.m_state, m_self |-> members_empty]
      emptied(m) == [m_state |-> empty, m_self |-> m]
  IN CASE res.m_state = success ->
            {[crash |-> a.crash,
              obj |-> [fresh EXCEPT !.m_self = a.m_self],
              res |-> IF a.crash THEN res ELSE emptied(m)] :
               a \in UNION {Assign(members_empty, "T", v, tr.T) : v \in Read(res.m_self, "T")},
               m \in MovedFrom(res.m_self, "T", tr.T)}
       [] res.m_state = error ->
            {[crash |-> a.crash,
              obj |-> [fresh EXCEPT !.m_self = a.m_self],
              res |-> IF a.crash THEN res ELSE emptied(m)] :
               a \in UNION {Assign(members_empty, "E", e, tr.E) : e \in Read(res.m_self, "E")},
               m \in MovedFrom(res.m_self, "E", tr.E)}
       [] OTHER -> {[crash |-> FALSE, obj |-> fresh, res |-> emptied(res.m_self)]}

\* ------------------------------------------------------------------- state
NoObj == [status |-> "free", m_state |-> empty, m_self |-> members_empty]
Alive(r) == [status |-> "alive", m_state |-> r.m_state, m_self |-> r.m_self]
Plain(o) == [m_state |-> o.m_state, m_self |-> o.m_self]

IsAlive(i) == objs[i].status = "alive"
HasFree == \E i \in Slots : objs[i].status = "free"
Fresh == CHOOSE i \in Slots :
           /\ objs[i].status = "free"
           /\ \A j \in Slots : objs[j].status = "free" => i <= j

\* no exception in flight
NoExc == [m_reason |-> <<>>, dangling |-> FALSE]

\* last: op - the operation; arg - the payload a constructor was given; self -
\* the slot the operation was applied to; pre - that instance before the
\* operation; ret - the slot of the instance it returned (0: none); val - the
\* plain value it returned (<<>>: none, std::nullopt); thrown - the exception
\* it raised; calls - the arguments the callable was invoked with, in order;
\* rets - what the callable returned, in order; out - the lines it wrote to
\* std::cout; post - the instance a destructor left behind (its storage is
\* then free); exc - the exception object it raised
NoOp == [op |-> "none", arg |-> <<>>, self |-> 0, pre |-> NoObj, ret |-> 0,
         val |-> <<>>, thrown |-> "none", calls |-> <<>>, rets |-> <<>>,
         out |-> <<>>, post |-> NoObj, exc |-> NoExc]

\* the instantiation the repository's programs use, result<double, std::string>:
\* T is a trivial type, E is not
Instantiations == {[T |-> TRUE, E |-> FALSE]}

Init ==
  /\ inst \in Instantiations
  /\ objs = [i \in Slots |-> NoObj]
  /\ last = NoOp
  /\ cout = 0
  /\ crashed = FALSE

\* a constructor that builds r in a fresh slot
Construct(name, arg, r) ==
  /\ ~crashed
  /\ HasFree
  /\ objs' = [objs EXCEPT ![Fresh] = Alive(r)]
  /\ last' = [NoOp EXCEPT !.op = name, !.arg = arg, !.ret = Fresh]
  /\ UNCHANGED <<inst, cout, crashed>>

CtorDefault == Construct("result()", <<>>, result_default)
CtorValue == \E v \in TVals : Construct("result(value)", <<v>>, result_value(v))
CtorError == \E e \in EVals : Construct("result(error)", <<e>>, result_error(e))
CtorSuccessTag == \E v \in TVals : Construct("result(success_t, value)", <<v>>, result_success_tag(v))
CtorErrorTag == \E e \in EVals : Construct("result(error_t, error)", <<e>>, result_error_tag(e))

\* result(result<T, E>& res): b = a
Copy(i) ==
  /\ ~crashed
  /\ IsAlive(i)
  /\ HasFree
  /\ \E c \in result_copy(Plain(objs[i]), inst) :
       /\ crashed' = c.crash
       /\ objs' = IF c.crash THEN objs ELSE [objs EXCEPT ![Fresh] = Alive(c.obj)]
       /\ last' = [NoOp EXCEPT !.op = "copy", !.self = i, !.pre = objs[i],
                               !.ret = IF c.crash THEN 0 ELSE Fresh]
  /\ UNCHANGED <<inst, cout>>

\* result(result<T, E>&& res): b = std::move(a)
Move(i) ==
  /\ ~crashed
  /\ IsAlive(i)
  /\ HasFree
  /\ \E c \in result_move(Plain(objs[i]), inst) :
       /\ crashed' = c.crash
       /\ objs' = IF c.crash THEN objs
                  ELSE [objs EXCEPT ![Fresh] = Alive(c.obj), ![i] = Alive(c.res)]
       /\ last' = [NoOp EXCEPT !.op = "move", !.self = i, !.pre = objs[i],
                               !.ret = IF c.crash THEN 0 ELSE Fresh]
  /\ UNCHANGED <<inst, cout>>

\* operator<<(std::ostream&, const result<T, E>&): the texts it can write
Stream(res) ==
  CASE res.m_state = success -> {<<v>> : v \in Read(res.m_self, "T")}
    [] res.m_state = error -> {<<e>> : e \in Read(res.m_self, "E")}
    [] OTHER -> {<<>>}

\* the line ~result() writes to std::cout
DestroyedLine(res) ==
  {[text |-> t, state |-> to_string(res.m_state)] : t \in Stream(res)}

\* m_self.<member>.~X() : outcomes [crash, m_self]
DestroyMember(m_self, member, trivial) ==
  IF m_self.live = member
    THEN {[crash |-> FALSE, m_self |-> [m_self EXCEPT !.live = "none"]]}
    ELSE IF trivial
      THEN {[crash |-> FALSE, m_self |-> m_self]}
      ELSE {[crash |-> FALSE, m_self |-> m_self], [crash |-> TRUE, m_self |-> m_self]}

\* the switch of ~result(): outcomes [crash, m_self]
result_destroy(res, tr) ==
  CASE res.m_state = success -> DestroyMember(res.m_self, "T", tr.T)
    [] res.m_state = error -> DestroyMember(res.m_self, "E", tr.E)
    [] OTHER -> {[crash |-> FALSE, m_self |-> res.m_self]}

\* ~result()
Destroy(i) ==
  /\ ~crashed
  /\ IsAlive(i)
  /\ cout < MaxLines
  /\ \E line \in DestroyedLine(Plain(objs[i])), d \in result_destroy(Plain(objs[i]), inst) :
       /\ cout' = cout + 1
       /\ crashed' = d.crash
       /\ objs' = [objs EXCEPT ![i] = NoObj]
       /\ last' = [NoOp EXCEPT !.op = "~result", !.self = i, !.pre = objs[i],
                               !.out = <<line>>,
                               !.post = [status |-> "free", m_state |-> objs[i].m_state,
                                         m_self |-> d.m_self]]
  /\ UNCHANGED inst

\* -------------------------------------------------------- bad_result_access
\* bad_result_access(const char* reason): m_reason points to the caller's
\* string, a literal
bad_result_access_literal(reason) == [m_reason |-> reason, dangling |-> FALSE]

\* bad_result_access(const std::string& reason) : m_reason(reason.c_str()):
\* m_reason points into the caller's std::string, here a temporary that is
\* destroyed at the end of the throw expression
bad_result_access_string(reason) == [m_reason |-> reason, dangling |-> TRUE]

\* what the bytes of a destroyed string read as
FreedText == <<"?">>

\* what() where the exception is caught: m_reason is returned as it is, and a
\* pointer into a destroyed string reads as the old text or as anything else
what(exc) == IF exc.dangling THEN {exc.m_reason, FreedText} ELSE {exc.m_reason}

\* "Invalid state for value access, result's state was: " + to_string(m_state)
ValueReason(state) ==
  <<"Invalid state for value access, result's state was: ", to_string(state)>>

\* ---------------------------------------------------------------- accessors
\* mutant of value: the check is m_state != empty, so an Error receiver
\* yields whatever m_value reads as
value_unchecked(res) ==
  IF res.m_state # empty
    THEN {[thrown |-> "none", val |-> <<v>>, exc |-> NoExc] : v \in Read(res.m_self, "T")}
    ELSE {[thrown |-> "bad_result_access", val |-> <<>>,
           exc |-> bad_result_access_string(ValueReason(res.m_state))]}

\* value(): outcomes [thrown, val, exc]
value(res) ==
  IF res.m_state = success
    THEN {[thrown |-> "none", val |-> <<v>>, exc |-> NoExc] : v \in Read(res.m_self, "T")}
    ELSE {[thrown |-> "bad_result_access", val |-> <<>>,
           exc |-> bad_result_access_string(ValueReason(res.m_state))]}

\* success(): the optionals it can return (<<>> is std::nullopt)
success_opt(res) ==
  IF res.m_state = success THEN {<<v>> : v \in Read(res.m_self, "T")} ELSE {<<>>}

\* error(): the optionals it can return
error_opt(res) ==
  IF res.m_state = error THEN {<<e>> : e \in Read(res.m_self, "E")} ELSE {<<>>}

\* value_or(default_value)
value_or(res, default_value) ==
  IF res.m_state = success THEN Read(res.m_self, "T") ELSE {default_value}

\* an accessor applied to instance i: the instance is left alone
Access(name, i, outcomes) ==
  /\ ~crashed
  /\ IsAlive(i)
  /\ \E o \in outcomes :
       last' = [NoOp EXCEPT !.op = name, !.self = i, !.pre = objs[i],
                            !.val = o.val, !.thrown = o.thrown, !.exc = o.exc]
  /\ UNCHANGED <<inst, objs, cout, crashed>>

Value(i) == Access("value", i, value(Plain(objs[i])))
Success(i) ==
  Access("success", i, {[thrown |-> "none", val |-> o, exc |-> NoExc] : o \in success_opt(Plain(objs[i]))})
Error(i) ==
  Access("error", i, {[thrown |-> "none", val |-> o, exc |-> NoExc] : o \in error_opt(Plain(objs[i]))})

\* ---------------------------------------------------------------- callables
TArg == TVals \cup {Garbage}
EArg == EVals \cup {Garbage}

\* the results a callable returns: built by a constructor from a proper payload
Built == {result_default} \cup {result_success_tag(v) : v \in TVals}
           \cup {result_error_tag(e) : e \in EVals}

\* T -> T callables given to map: the constant ones and a successor
TtoT ==
  {[x \in TArg |-> c] : c \in TVals}
    \cup {[x \in TArg |-> IF x = Garbage THEN Garbage ELSE (x + 1) % (MaxVal + 1)]}

\* E -> E callables given to map_error
EtoE ==
  {[x \in EArg |-> c] : c \in EVals}
    \cup {[x \in EArg |-> IF x = Garbage THEN Garbage ELSE (x + 1) % (MaxErr + 1)]}

\* T -> result callables given to and_then: the constant ones and the one of
\* examples/chaining_operations.cpp (x > 0 ? result(x * 2) : result("Negative result"))
TtoResult ==
  {[x \in TArg |-> r] : r \in Built}
    \cup {[x \in TArg |-> IF x > 0 THEN result_value((x * 2) % (MaxVal + 1))
                          ELSE result_error(0)]}

\* E -> result callables given to or_else: the constant ones and the one of
\* examples/chaining_operations.cpp (result("Error: " + error))
EtoResult ==
  {[x \in EArg |-> r] : r \in Built}
    \cup {[x \in EArg |-> IF x = Garbage THEN result_error(Garbage)
                          ELSE result_error((x + 1) % (MaxErr + 1))]}

\* result -> result callables given to transform
ResultToResult ==
  {[kind |-> "const", r |-> r] : r \in Built} \cup {[kind |-> "example", r |-> result_default]}

\* a transform callable applied to res: the constant ones, and the one of
\* examples/chaining_operations.cpp
\* (res.success() ? result(success_t, "Success! No error")
\*                : result(error_t, res.error().value_or("Unknown error")))
CallTransform(f, res) ==
  IF f.kind = "const" THEN {f.r}
  ELSE UNION {IF s # <<>> THEN {result_success_tag(0)}
              ELSE {result_error_tag(IF e # <<>> THEN e[1] ELSE 0) : e \in error_opt(res)}
              : s \in success_opt(res)}

\* -------------------------------------------------------------- combinators
\* Outcomes [self, ret, calls, rets]: the receiver after the call, the instance
\* returned, the arguments f was called with and what f returned.

\* mutant of or_else: the short-circuit builds Success(T{}), not Success(value)
or_else_default(res, f) ==
  IF res.m_state = error
    THEN {[self |-> res, ret |-> f[e], calls |-> <<e>>, rets |-> <<f[e]>>] :
            e \in Read(res.m_self, "E")}
    ELSE {[self |-> res, ret |-> result_success_tag(T_init), calls |-> <<>>, rets |-> <<>>]}

\* or_else(f)
or_else(res, f) ==
  IF res.m_state = error
    THEN {[self |-> res, ret |-> f[e], calls |-> <<e>>, rets |-> <<f[e]>>] :
            e \in Read(res.m_self, "E")}
    ELSE {[self |-> res, ret |-> result_success_tag(v), calls |-> <<>>, rets |-> <<>>] :
            v \in value_or(res, T_init)}

\* mutant of and_then: f is invoked whenever the receiver is not Empty
and_then_eager(res, f) ==
  IF res.m_state # empty
    THEN {[self |-> res, ret |-> f[v], calls |-> <<v>>, rets |-> <<f[v]>>] :
            v \in Read(res.m_self, "T")}
    ELSE {[self |-> res, ret |-> result_error_tag(e), calls |-> <<>>, rets |-> <<>>] :
            e \in Read(res.m_self, "E")}

\* and_then(f)
and_then(res, f) ==
  IF res.m_state = success
    THEN {[self |-> res, ret |-> f[v], calls |-> <<v>>, rets |-> <<f[v]>>] :
            v \in Read(res.m_self, "T")}
    ELSE {[self |-> res, ret |-> result_error_tag(e), calls |-> <<>>, rets |-> <<>>] :
            e \in Read(res.m_self, "E")}

\* mutant of map: f is invoked and its result dropped
map_dropped(res, f) ==
  IF res.m_state = success
    THEN {[self |-> res, ret |-> result_success_tag(v), calls |-> <<v>>,
           rets |-> <<f[v]>>] : v \in Read(res.m_self, "T")}
    ELSE IF res.m_state = error
      THEN {[self |-> res, ret |-> result_error_tag(e), calls |-> <<>>, rets |-> <<>>] :
              e \in Read(res.m_self, "E")}
      ELSE {[self |-> res, ret |-> result_default, calls |-> <<>>, rets |-> <<>>]}

\* map(f)
map(res, f) ==
  IF res.m_state = success
    THEN {[self |-> res, ret |-> result_success_tag(f[v]), calls |-> <<v>>,
           rets |-> <<f[v]>>] : v \in Read(res.m_self, "T")}
    ELSE IF res.m_state = error
      THEN {[self |-> res, ret |-> result_error_tag(e), calls |-> <<>>, rets |-> <<>>] :
              e \in Read(res.m_self, "E")}
      ELSE {[self |-> res, ret |-> result_default, calls |-> <<>>, rets |-> <<>>]}

\* mutant of map_error: the error is mapped in place, as the comment above
\* map_error in the header describes it
map_error_in_place(res, f) ==
  IF res.m_state = error
    THEN {[self |-> result_error_tag(f[e]), ret |-> result_error_tag(f[e]),
           calls |-> <<e>>, rets |-> <<f[e]>>] : e \in Read(res.m_self, "E")}
    ELSE IF res.m_state = success
      THEN {[self |-> res, ret |-> result_success_tag(v), calls |-> <<>>, rets |-> <<>>] :
              v \in Read(res.m_self, "T")}
      ELSE {[self |-> res, ret |-> result_default, calls |-> <<>>, rets |-> <<>>]}

\* map_error(f)
map_error(res, f) ==
  IF res.m_state = error
    THEN {[self |-> res, ret |-> result_error_tag(f[e]), calls |-> <<e>>,
           rets |-> <<f[e]>>] : e \in Read(res.m_self, "E")}
    ELSE IF res.m_state = success
      THEN {[self |-> res, ret |-> result_success_tag(v), calls |-> <<>>, rets |-> <<>>] :
              v \in Read(res.m_self, "T")}
      ELSE {[self |-> res, ret |-> result_default, calls |-> <<>>, rets |-> <<>>]}

\* transform(f)
transform(res, f) ==
  {[self |-> res, ret |-> r, calls |-> <<res>>, rets |-> <<r>>] : r \in CallTransform(f, res)}

\* the line ~result() writes for the local res of inspect once it was moved
\* from: it is Empty, and operator<< writes nothing for it
DestroyedText(res) == [text |-> <<>>, state |-> to_string(res.m_state)]

\* the local res of inspect
inspect_local(res) ==
  IF res.m_state = success
    THEN {result_success_tag(v) : v \in Read(res.m_self, "T")}
    ELSE IF res.m_state = error
      THEN {result_error_tag(e) : e \in Read(res.m_self, "E")}
      ELSE {result_default}

\* inspect(f): outcomes [crash, self, ret, calls, out].  `return res` names a
\* local: the build either constructs it in the returned instance (nrvo) or
\* move-constructs the returned instance from it and destroys it.
inspect(res, nrvo, tr) ==
  UNION {
    IF nrvo
      THEN {[crash |-> FALSE, self |-> res, ret |-> local, calls |-> <<local>>, out |-> <<>>]}
      ELSE {[crash |-> m.crash, self |-> res, ret |-> m.obj, calls |-> <<local>>,
             out |-> IF m.crash THEN <<>> ELSE <<DestroyedText(m.res)>>] :
              m \in result_move(local, tr)}
    : local \in inspect_local(res)}

\* a combinator applied to instance i: the returned instance takes a fresh slot
Combine(name, i, outcomes) ==
  /\ ~crashed
  /\ IsAlive(i)
  /\ HasFree
  /\ \E o \in outcomes :
       /\ objs' = [objs EXCEPT ![i] = Alive(o.self), ![Fresh] = Alive(o.ret)]
       /\ last' = [NoOp EXCEPT !.op = name, !.self = i, !.pre = objs[i],
                               !.ret = Fresh, !.calls = o.calls, !.rets = o.rets]
  /\ UNCHANGED <<inst, cout, crashed>>

OrElse(i) == Combine("or_else", i, UNION {or_else(Plain(objs[i]), f) : f \in EtoResult})
AndThen(i) == Combine("and_then", i, UNION {and_then(Plain(objs[i]), f) : f \in TtoResult})
Map(i) == Combine("map", i, UNION {map(Plain(objs[i]), f) : f \in TtoT})
MapError(i) == Combine("map_error", i, UNION {map_error(Plain(objs[i]), f) : f \in EtoE})
Transform(i) == Combine("transform", i, UNION {transform(Plain(objs[i]), f) : f \in ResultToResult})

Inspect(i) ==
  /\ ~crashed
  /\ IsAlive(i)
  /\ HasFree
  /\ \E nrvo \in BOOLEAN : \E o \in inspect(Plain(objs[i]), nrvo, inst) :
       /\ cout + Len(o.out) <= MaxLines
       /\ crashed' = o.crash
       /\ objs' = IF o.crash THEN [objs EXCEPT ![i] = Alive(o.self)]
                  ELSE [objs EXCEPT ![i] = Alive(o.self), ![Fresh] = Alive(o.ret)]
       /\ cout' = cout + Len(o.out)
       /\ last' = [NoOp EXCEPT !.op = "inspect", !.self = i, !.pre = objs[i],
                               !.ret = IF o.crash THEN 0 ELSE Fresh,
                               !.calls = o.calls, !.out = o.out]
  /\ UNCHANGED inst

\* -------------------------------------------------------------- conversions
\* U(x): the converting construction of the target payload type, here a
\* truncating one (a payload counts halves, the target type whole units)
U(x) == IF x = Garbage THEN Garbage ELSE x \div 2

\* operator result<U, E>(): outcomes [crash, thrown, ret]
to_result_U_E(res) ==
  {IF o.thrown = "none"
     THEN [crash |-> FALSE, thrown |-> "none", ret |-> result_value(U(o.val[1]))]
     ELSE [crash |-> FALSE, thrown |-> o.thrown, ret |-> result_default]
   : o \in value(res)}

\* *opt for an optional: dereferencing std::nullopt is undefined behaviour, it
\* yields an indeterminate payload or ends the process.  Outcomes [crash, val].
Deref(opt, member) ==
  IF opt # <<>> THEN {[crash |-> FALSE, val |-> opt[1]]}
  ELSE {[crash |-> FALSE, val |-> x] : x \in Indeterminate(member)}
         \cup {[crash |-> TRUE, val |-> Garbage]}

\* operator result<T, U>(): outcomes [crash, thrown, ret]
to_result_T_U(res) ==
  {[crash |-> d.crash, thrown |-> "none", ret |-> result_error(U(d.val))]
   : d \in UNION {Deref(o, "E") : o \in error_opt(res)}}

\* a conversion applied to instance i
Convert(name, i, outcomes) ==
  /\ ~crashed
  /\ IsAlive(i)
  /\ HasFree
  /\ \E o \in outcomes :
       LET made == ~o.crash /\ o.thrown = "none"
       IN /\ crashed' = o.crash
          /\ objs' = IF made THEN [objs EXCEPT ![Fresh] = Alive(o.ret)] ELSE objs
          /\ last' = [NoOp EXCEPT !.op = name, !.self = i, !.pre = objs[i],
                                  !.ret = IF made THEN Fresh ELSE 0,
                                  !.thrown = o.thrown]
  /\ UNCHANGED <<inst, cout>>

ConvertSuccess(i) == Convert("operator result<U, E>", i, to_result_U_E(Plain(objs[i])))
ConvertError(i) == Convert("operator result<T, U>", i, to_result_T_U(Plain(objs[i])))

\* ------------------------------------------------------------- dereference
\* a read through a reference into an optional that was destroyed: what the
\* optional held, if it held a value, or an indeterminate content
Dangling(opt) == IF opt = <<>> THEN {Garbage} ELSE {opt[1], Garbage}

\* operator*(): return *success().  success() returns a temporary optional,
\* *opt of it is dereferenced whether or not it holds a value, and the
\* reference returned refers into the temporary, which is destroyed when the
\* function returns.  Outcomes [crash, thrown, val].
operator_star(res) ==
  UNION {
    UNION {
      IF c THEN {[crash |-> TRUE, thrown |-> "none", val |-> <<>>]}
      ELSE {[crash |-> FALSE, thrown |-> "none", val |-> <<x>>] : x \in Dangling(o)}
      : c \in {d.crash : d \in Deref(o, "T")}}
    : o \in success_opt(res)}

\* *r
Star(i) ==
  /\ ~crashed
  /\ IsAlive(i)
  /\ \E o \in operator_star(Plain(objs[i])) :
       /\ crashed' = o.crash
       /\ last' = [NoOp EXCEPT !.op = "operator*", !.self = i, !.pre = objs[i],
                               !.val = o.val, !.thrown = o.thrown]
  /\ UNCHANGED <<inst, objs, cout>>

Next ==
  \/ CtorDefault
  \/ CtorValue
  \/ CtorError
  \/ CtorSuccessTag
  \/ CtorErrorTag
  \/ \E i \in Slots : Copy(i)
  \/ \E i \in Slots : Move(i)
  \/ \E i \in Slots : Destroy(i)
  \/ \E i \in Slots : Value(i)
  \/ \E i \in Slots : Success(i)
  \/ \E i \in Slots : Error(i)
  \/ \E i \in Slots : OrElse(i)
  \/ \E i \in Slots : AndThen(i)
  \/ \E i \in Slots : Map(i)
  \/ \E i \in Slots : MapError(i)
  \/ \E i \in Slots : Transform(i)
  \/ \E i \in Slots : Inspect(i)
  \/ \E i \in Slots : ConvertSuccess(i)
  \/ \E i \in Slots : ConvertError(i)
  \/ \E i \in Slots : Star(i)

Spec == Init /\ [][Next]_vars

\* ------------------------------------------------------------------ claims
Returned == Plain(objs[last.ret])
Receiver == Plain(last.pre)
Stored == last.pre.m_self.val

\* C1: in every reachable state the tag and the materialized payload of every
\* instance agree: Success iff a T payload is live, Error iff an E payload is
\* live, Empty iff no payload is live.
C1_TagAgreesWithPayload ==
  \A i \in Slots : IsAlive(i) =>
    /\ objs[i].m_state = success <=> objs[i].m_self.live = "T"
    /\ objs[i].m_state = error <=> objs[i].m_self.live = "E"
    /\ objs[i].m_state = empty <=> objs[i].m_self.live = "none"

\* C2: value() returns the stored T when the receiver is Success, raises
\* bad_result_access and yields no value when it is Error or Empty, and
\* leaves the receiver as it was.
C2_ValueOnlyOnSuccess ==
  last.op = "value" =>
    /\ Receiver.m_state = success =>
         /\ last.thrown = "none"
         /\ Receiver.m_self.written = "T"
         /\ last.val = <<Stored>>
    /\ Receiver.m_state # success =>
         /\ last.thrown = "bad_result_access"
         /\ last.val = <<>>
    /\ objs[last.self] = last.pre

C2_Witness ==
  /\ last.op = "value"
  /\ last.pre.m_state = error
  /\ last.thrown = "bad_result_access"

\* C3: and_then(f) on Success(v) invokes f exactly once, with v, and returns
\* what f returned as it is; on Error(e) it never invokes f and returns
\* Error(e).
C3_AndThen ==
  (last.op = "and_then" /\ Receiver.m_state # empty) =>
    /\ Receiver.m_state = success =>
         /\ last.calls = <<Stored>>
         /\ Len(last.rets) = 1
         /\ Returned = last.rets[1]
    /\ Receiver.m_state = error =>
         /\ last.calls = <<>>
         /\ Returned.m_state = error
         /\ Read(Returned.m_self, "E") = {Stored}

C3_Witness ==
  /\ last.op = "and_then"
  /\ last.pre.m_state = success
  /\ Len(last.calls) = 1
  /\ objs[last.ret].m_state = error

\* C4: or_else(f) on Error(e) invokes f exactly once, with e, and returns what
\* f returned as it is; on Success(v) it never invokes f and returns
\* Success(v).
C4_OrElse ==
  (last.op = "or_else" /\ Receiver.m_state # empty) =>
    /\ Receiver.m_state = error =>
         /\ last.calls = <<Stored>>
         /\ Len(last.rets) = 1
         /\ Returned = last.rets[1]
    /\ Receiver.m_state = success =>
         /\ last.calls = <<>>
         /\ Returned.m_state = success
         /\ Read(Returned.m_self, "T") = {Stored}

C4_Witness ==
  /\ last.op = "or_else"
  /\ last.pre.m_state = error
  /\ Len(last.calls) = 1
  /\ objs[last.ret].m_state = success

\* C5: map(f) returns Success(f(v)) for Success(v) and, without invoking f,
\* Error(e) for Error(e); map_error(g) returns Error(g(e)) for Error(e) and,
\* without invoking g, Success(v) for Success(v).
C5_MapOneChannel ==
  /\ (last.op = "map" /\ Receiver.m_state = success) =>
       /\ last.calls = <<Stored>>
       /\ Len(last.rets) = 1
       /\ Returned.m_state = success
       /\ Read(Returned.m_self, "T") = {last.rets[1]}
  /\ (last.op = "map" /\ Receiver.m_state = error) =>
       /\ last.calls = <<>>
       /\ Returned.m_state = error
       /\ Read(Returned.m_self, "E") = {Stored}
  /\ (last.op = "map_error" /\ Receiver.m_state = error) =>
       /\ last.calls = <<Stored>>
       /\ Len(last.rets) = 1
       /\ Returned.m_state = error
       /\ Read(Returned.m_self, "E") = {last.rets[1]}
  /\ (last.op = "map_error" /\ Receiver.m_state = success) =>
       /\ last.calls = <<>>
       /\ Returned.m_state = success
       /\ Read(Returned.m_self, "T") = {Stored}

C5_Witness ==
  /\ last.op = "map"
  /\ last.pre.m_state = success
  /\ Len(last.rets) = 1
  /\ last.rets[1] # last.calls[1]
  /\ objs[last.ret].m_self.val = last.rets[1]

\* C6: after b = move(a), a is Empty and b has the state and the payload a had
\* before the move, whatever state a was in.
C6_MoveTransfers ==
  last.op = "move" =>
    /\ ~crashed
    /\ last.ret # 0
    /\ objs[last.self].m_state = empty
    /\ Returned.m_state = Receiver.m_state
    /\ Receiver.m_state = success => Read(Returned.m_self, "T") = {Stored}
    /\ Receiver.m_state = error => Read(Returned.m_self, "E") = {Stored}

\* a move of an Error instance that ended as C6 says
C6_Witness ==
  /\ last.op = "move"
  /\ last.pre.m_state = error
  /\ ~crashed
  /\ objs[last.self].m_state = empty
  /\ last.ret # 0
  /\ objs[last.ret].m_self.val = last.pre.m_self.val

Combinators == {"map", "map_error", "and_then", "or_else", "transform", "inspect"}

C8_EmptyPassesThrough ==
  (/\ last.op \in {"map", "map_error", "and_then", "or_else", "inspect"}
   /\ Receiver.m_state = empty
   /\ last.ret # 0)
    => Returned.m_state = empty

\* C9: a result constructed from v has value() = v, success() = Some(v) and
\* error() = None; a result constructed from e has error() = Some(e) and
\* success() = None.
C9_ConstructionRoundTrips ==
  /\ last.op \in {"result(value)", "result(success_t, value)"} =>
       /\ value(Returned) = {[thrown |-> "none", val |-> last.arg, exc |-> NoExc]}
       /\ success_opt(Returned) = {last.arg}
       /\ error_opt(Returned) = {<<>>}
  /\ last.op \in {"result(error)", "result(error_t, error)"} =>
       /\ error_opt(Returned) = {last.arg}
       /\ success_opt(Returned) = {<<>>}

C9_Witness ==
  /\ last.op = "result(value)"
  /\ last.arg = <<1>>
  /\ objs[last.ret].m_state = success

\* C10: a cross-type conversion yields a result in the same state with the
\* converted payload when the receiver's active channel is the converted one,
\* and raises bad_result_access otherwise.
C10_ConversionOnActiveChannel ==
  /\ last.op = "operator result<U, E>" =>
       IF Receiver.m_state = success
         THEN /\ last.thrown = "none"
              /\ last.ret # 0
              /\ Returned = result_success_tag(U(Stored))
         ELSE /\ last.thrown = "bad_result_access"
              /\ last.ret = 0
              /\ ~crashed
  /\ last.op = "operator result<T, U>" =>
       IF Receiver.m_state = error
         THEN /\ last.thrown = "none"
              /\ last.ret # 0
              /\ Returned = result_error_tag(U(Stored))
         ELSE /\ last.thrown = "bad_result_access"
              /\ last.ret = 0
              /\ ~crashed

\* C11: operator* returns the stored success value when the receiver is in
\* state Success, and raises bad_result_access, returning nothing, when the
\* receiver is in state Error or Empty.
C11_DereferenceOnlyOnSuccess ==
  last.op = "operator*" =>
    IF Receiver.m_state = success
      THEN /\ last.thrown = "none"
           /\ last.val = <<Stored>>
           /\ ~crashed
      ELSE /\ last.thrown = "bad_result_access"
           /\ last.val = <<>>
           /\ ~crashed

\* C12: no operation of result writes to an output stream: construction, copy,
\* move, the accessors, the combinators and destruction leave std::cout as it
\* was.
C12_NoOutput == [][cout' = cout]_vars

\* C13: a destructor releases exactly the active payload, which was
\* constructed, and leaves no constructed payload behind; copy and move write
\* only into a member that was constructed; none of them crashes.
C13_PayloadLifetimes ==
  /\ last.op = "~result" =>
       /\ ~crashed
       /\ last.post.m_self.live = "none"
       /\ Receiver.m_state = success => last.pre.m_self.live = "T"
       /\ Receiver.m_state = error => last.pre.m_self.live = "E"
  /\ last.op \in {"copy", "move"} =>
       /\ ~crashed
       /\ last.ret # 0 => Returned.m_self.written \in {"none", Returned.m_self.live}

\* C14: the bad_result_access raised by value() on a receiver that is not in
\* state Success names the receiver's state, and what() gives that reason
\* where the exception is caught.
C14_ReasonReadable ==
  (last.op = "value" /\ last.thrown = "bad_result_access") =>
    what(last.exc) = {ValueReason(Receiver.m_state)}
====
